---- MODULE Spec2Model ----
(***************************************************************************)
(* A model of parslbox: the job record store (helpers/database.py), the    *)
(* plugin registry (apps/app_registry.py), the backend configuration       *)
(* provider (configs/) and the run orchestrator (commands/run.py).         *)
(*                                                                         *)
(* Seven specifications share the variables:                               *)
(*   Spec        one run pass of commands/run.py against the store, from   *)
(*               configuration loading to the end of the pass;             *)
(*   SpecAwait   the await/reconcile loop of run.py (lines 175-207) entered*)
(*               with a list of retained handles, together with the        *)
(*               executing units of the submitted jobs;                    *)
(*   SpecContract  the same loop over handles of the plugins that assume   *)
(*               success and of a plugin that leaves the status            *)
(*               undetermined, as the AppBase interface allows;            *)
(*   SpecUpdate  database.update_jobs applied to a store as a function of  *)
(*               its arguments;                                            *)
(*   SpecShared  one run pass on a store that other processes (add_job,    *)
(*               the update command) write while the pass is under way;    *)
(*   SpecPasses  two run passes, each a process of its own, on one store;  *)
(*   SpecStore   the store under the add command, the update command and   *)
(*               direct calls of database.add_job and get_jobs_by_ids, and *)
(*               the resolution of plugins by name.                        *)
(***************************************************************************)
EXTENDS Integers, Sequences, FiniteSets, TLC

\* ------------------------------------------------------------------ bounds
MaxJobs == 3
MaxNodes == 2
MaxGpus == 2
MaxRetries == 1
MaxHandles == 2
MaxDirs == 2
MaxUpdates == 1

\* ------------------------------------------------------ program constants
SOPHIA_GPUS_PER_NODE == 8

\* --------------------------------------------------------------- values
\* A NULL column of the jobs table / Python's None held in a row.
NULL == "NULL"
\* Optional arguments: None is the empty sequence, a supplied v is <<v>>.
None == << >>
Some(v) == <<v>>
IsNone(o) == o = << >>
Val(o) == o[1]

JobIds == 1..MaxJobs

\* str.capitalize(): first character upper case, the rest lower case.
\* Tabulated for the spellings the model uses.
Capitalize(s) ==
    CASE s \in {"Ready", "ready", "READY"} -> "Ready"
      [] s \in {"Restart", "restart", "RESTART"} -> "Restart"
      [] s \in {"Submitted", "submitted", "SUBMITTED"} -> "Submitted"
      [] s \in {"Running", "running", "RUNNING"} -> "Running"
      [] s \in {"Done", "done", "DONE"} -> "Done"
      [] s \in {"Failed", "failed", "FAILED"} -> "Failed"
      [] OTHER -> s

\* The columns of a row as get_jobs returns it (SELECT * on CREATE_TABLE_SQL).
RowKeys == {"job_id", "app", "path", "status", "ngpus", "sched_job_id", "tag", "timestamp"}

\* ------------------------------------------------------------- registry
\* app_registry.py 14-18: name -> application class.
APP_FACTORY == [lammps |-> "LammpsApp", vasp |-> "VaspApp", python |-> "PythonApp"]
is_app_registered(app_name) == app_name \in DOMAIN APP_FACTORY

\* get_app_class answering an unregistered name with a default class.
get_app_class_default(app_name) ==
    IF app_name \in DOMAIN APP_FACTORY
    THEN [raised |-> NULL, value |-> APP_FACTORY[app_name], listed |-> {}]
    ELSE [raised |-> NULL, value |-> "PythonApp", listed |-> {}]

\* app_registry.py 20-42: the class registered under the name, or
\* ValueError with a message that lists APP_FACTORY.keys().
get_app_class(app_name) ==
    IF app_name \in DOMAIN APP_FACTORY
    THEN [raised |-> NULL, value |-> APP_FACTORY[app_name], listed |-> {}]
    ELSE [raised |-> "ValueError", value |-> NULL, listed |-> DOMAIN APP_FACTORY]

CONFIG_FACTORIES == {"polaris", "sophia"}
\* SCHEDULER of the configuration class registered under a name.
SCHEDULER(name) == "PBS"

\* ---------------------------------------------------------------- store
VARIABLES
    store,      \* the jobs table: job_id -> row
    pc,         \* position of the run pass
    config_name, \* run's --config argument
    node_file,  \* whether PBS_NODEFILE named an existing file when run started
    retries,    \* run's --retries argument, handed to the executor
    scheduler,  \* second component of load_config's result
    app_filter, \* set(apps.split(',')) or None
    tag_filter, \* set(tags.split(',')) or None
    runnable,   \* all_runnable_jobs after the first query
    filtered,   \* filtered_jobs
    grouped,    \* grouped_jobs, in insertion order
    app_config, \* per group processed so far: the app_config run resolved for it
    gi,         \* index of the group being processed
    ji,         \* index of the job being processed in its group
    futures,    \* retained handles: the job snapshots, in submission order
    idx,        \* index of the handle being awaited
    inExcept,   \* the await step is in its except block
    job_status, \* the await step's local job_status
    unit,       \* executing unit of each job
    marker,     \* log.lammps of the job directory holds "Total wall time:"
    hist,       \* per job: the calls and writes made for it, in order
    cleaned,    \* parsl.dfk().cleanup() was called
    exc,        \* the exception that escaped the pass
    call,       \* SpecUpdate: the arguments of the update_jobs call, once made
    pre,        \* the store before the pass (Spec) or before the call (SpecUpdate)
    ret,        \* SpecUpdate: the exception raised (or NULL) and the count returned
    peer        \* SpecPasses: the locals of the run process that is not stepping

vars == <<store, pc, config_name, node_file, retries, scheduler, app_filter, tag_filter, runnable, filtered,
          grouped, gi, ji, futures, idx, inExcept, job_status, unit, marker, hist, cleaned,
          exc, call, pre, ret, app_config, peer>>

fetchVars == <<config_name, node_file, retries, scheduler, app_filter, tag_filter, runnable,
              filtered, grouped>>
awaitVars == <<idx, inExcept, job_status>>
callVars == <<call, pre, ret, peer>>

\* The columns of a row that a client chooses freely.
Row(app, status, ngpus, sched, tag) ==
    [app |-> app, status |-> status, ngpus |-> ngpus, sched_job_id |-> sched, tag |-> tag]

\* A stored row: path is the job directory (directories are numbered),
\* timestamp a logical clock, 0 at the insert (DEFAULT CURRENT_TIMESTAMP)
\* and advanced by the trigger update_jobs_timestamp at every UPDATE of
\* the row. The job_id is the index of the row in the store.
Rec(path, row) ==
    [path |-> path, timestamp |-> 0, app |-> row.app, status |-> row.status,
     ngpus |-> row.ngpus, sched_job_id |-> row.sched_job_id, tag |-> row.tag]

\* The stores of at most n jobs with rows drawn from rows, job j in
\* directory j.
Stores(rows, n) == UNION {{[i \in 1..k |-> Rec(i, f[i])] : f \in [1..k -> rows]} : k \in 0..n}

\* update_jobs raises AttributeError: sched_job_id is bound to
\* status.capitalize(), and status is None.
UpdateRaises(job_ids, status, sched_job_id) ==
    /\ job_ids # {}
    /\ ~IsNone(sched_job_id)
    /\ IsNone(status)

\* The columns named in the SET clause.
SetFields(status, sched_job_id, app, tag, ngpus) ==
    {f \in {"status", "app", "tag", "ngpus", "sched_job_id"} :
        CASE f = "status" -> ~IsNone(status)
          [] f = "app" -> ~IsNone(app)
          [] f = "tag" -> ~IsNone(tag)
          [] f = "ngpus" -> ~IsNone(ngpus)
          [] f = "sched_job_id" -> ~IsNone(sched_job_id)}

\* The parameter bound to a column of the SET clause.
SetParam(f, status, sched_job_id, app, tag, ngpus) ==
    CASE f = "status" -> Capitalize(Val(status))
      [] f = "app" -> Val(app)
      [] f = "tag" -> Val(tag)
      [] f = "ngpus" -> Val(ngpus)
      [] f = "sched_job_id" -> Capitalize(Val(status))

\* update_jobs without the early return of database.py 192-193: with no
\* field supplied the addressed rows are still written (and so touched by
\* the timestamp trigger).
UpdateJobsTouching(st, job_ids, status, sched_job_id, app, tag, ngpus) ==
    LET fields == SetFields(status, sched_job_id, app, tag, ngpus) IN
    [j \in DOMAIN st |->
        IF j \in job_ids
        THEN [f \in DOMAIN st[j] |->
                IF f \in fields
                THEN SetParam(f, status, sched_job_id, app, tag, ngpus)
                ELSE IF f = "timestamp" THEN st[j][f] + 1
                ELSE st[j][f]]
        ELSE st[j]]

\* update_jobs whose UPDATE has no WHERE clause: every row is written.
UpdateJobsNoWhere(st, job_ids, status, sched_job_id, app, tag, ngpus) ==
    LET fields == SetFields(status, sched_job_id, app, tag, ngpus) IN
    IF job_ids = {} \/ fields = {}
    THEN st
    ELSE [j \in DOMAIN st |->
            [f \in DOMAIN st[j] |->
                IF f \in fields
                THEN SetParam(f, status, sched_job_id, app, tag, ngpus)
                ELSE IF f = "timestamp" THEN st[j][f] + 1
                ELSE st[j][f]]]

\* The store after update_jobs returned (not defined when it raises).
UpdateJobs(st, job_ids, status, sched_job_id, app, tag, ngpus) ==
    LET fields == SetFields(status, sched_job_id, app, tag, ngpus) IN
    IF job_ids = {} \/ fields = {}
    THEN st
    ELSE [j \in DOMAIN st |->
            IF j \in job_ids
            THEN [f \in DOMAIN st[j] |->
                    IF f \in fields
                    THEN SetParam(f, status, sched_job_id, app, tag, ngpus)
                    ELSE IF f = "timestamp" THEN st[j][f] + 1
                    ELSE st[j][f]]
            ELSE st[j]]

\* cur.rowcount, the value update_jobs returns.
UpdateCount(st, job_ids, status, sched_job_id, app, tag, ngpus) ==
    IF job_ids = {} \/ SetFields(status, sched_job_id, app, tag, ngpus) = {}
    THEN 0
    ELSE Cardinality(job_ids \cap DOMAIN st)

\* update_jobs(job_ids, status=s) as the orchestrator, the plugins and the
\* executing units call it.
SetStatus(st, job_ids, s) == UpdateJobs(st, job_ids, Some(s), None, None, None, None)

\* get_jobs(status=s): the rows with that status, ascending by job_id.
RECURSIVE SortedIds(_)
SortedIds(S) ==
    IF S = {} THEN << >>
    ELSE LET m == CHOOSE x \in S : \A y \in S : x <= y
         IN <<m>> \o SortedIds(S \ {m})

Snapshot(st, j) ==
    [job_id |-> j, app |-> st[j].app, path |-> st[j].path, status |-> st[j].status,
     ngpus |-> st[j].ngpus, sched_job_id |-> st[j].sched_job_id, tag |-> st[j].tag,
     timestamp |-> st[j].timestamp]

\* get_jobs without the WHERE clause on status.
get_jobs_any_status(st, status) ==
    LET ids == SortedIds(DOMAIN st)
    IN [i \in 1..Len(ids) |-> Snapshot(st, ids[i])]

get_jobs(st, status) ==
    LET ids == SortedIds({j \in DOMAIN st : st[j].status = Capitalize(status)})
    IN [i \in 1..Len(ids) |-> Snapshot(st, ids[i])]

\* ------------------------------------------------- configuration provider
ConfigNames == {"polaris", "sophia", "aurora"}

\* SophiaConfig.get_config: detected_gpus_per_node after detect_resources.
\* smi is the number of accelerators nvidia-smi lists (0 when it fails).
SophiaGpusPerNode(nodes, smi) ==
    LET total_gpus == IF smi > 0 THEN smi ELSE nodes * SOPHIA_GPUS_PER_NODE
        n == IF nodes = 0 THEN 1 ELSE nodes
    IN total_gpus \div n

\* load_config falling back to a registered class for an unknown name.
load_config_default(name, nodes, smi) ==
    IF IsNone(nodes) THEN "FileNotFoundError"
    ELSE IF name = "sophia" /\ SophiaGpusPerNode(Val(nodes), smi) = 0
         THEN "ZeroDivisionError"
    ELSE "ok"

\* Outcome of load_config(name): "ok" or the exception raised.
\* nodes is None when PBS_NODEFILE names no existing file, else the number
\* of distinct lines of the node file.
load_config(name, nodes, smi) ==
    IF name \notin CONFIG_FACTORIES THEN "ValueError"
    ELSE IF IsNone(nodes) THEN "FileNotFoundError"
    ELSE IF name = "sophia" /\ SophiaGpusPerNode(Val(nodes), smi) = 0
         THEN "ZeroDivisionError"
    ELSE "ok"

\* ------------------------------------------------------------- run pass
\* The applications of the jobs in the store: a registered one and a name
\* that is not in APP_FACTORY.
JobApps == {"lammps", "gromacs"}
InitStatuses == {"Ready", "Restart", "Done"}
InitTags == {NULL, "t1"}
AppFilters == {None, Some({"lammps"})}
TagFilters == {None, Some({"t1"})}
\* os.environ.get('PBS_JOBID', f'local_{int(time.time())}')
EnvJobIds == {"123.pbs", "local_1700000000"}

InitRows == {Row(a, s, 1, NULL, t) : a \in JobApps, s \in InitStatuses, t \in InitTags}
InitStores == Stores(InitRows, MaxJobs)

\* hist records, per job, <<what, detail>>: the plugin hooks called for it
\* ("pre", "exec", "cs", "post"), the orchestrator's writes ("write"), the
\* executing unit's write ("unit") and the outcome of awaiting its handle
\* ("result").
Log(h, j, ev) == [h EXCEPT ![j] = Append(@, ev)]

Init ==
    /\ store \in InitStores
    /\ pc = "idle"
    /\ config_name = NULL
    /\ node_file = NULL
    /\ retries = 0    \* the default of --retries
    /\ scheduler = NULL
    /\ app_filter = None
    /\ tag_filter = None
    /\ runnable = << >>
    /\ filtered = << >>
    /\ grouped = << >>
    /\ app_config = << >>
    /\ gi = 0
    /\ ji = 0
    /\ futures = << >>
    /\ idx = 0
    /\ inExcept = FALSE
    /\ job_status = NULL
    /\ unit = [j \in JobIds |-> "none"]
    /\ marker = [j \in JobIds |-> FALSE]
    /\ hist = [j \in JobIds |-> << >>]
    /\ cleaned = FALSE
    /\ exc = NULL
    /\ call = None
    /\ pre = Some(store)
    /\ ret = None
    /\ peer = None

\* The node files and nvidia-smi listings run may find: nodes is None when
\* PBS_NODEFILE names no existing file.
NodeFiles == {None} \cup {Some(n) : n \in 0..MaxNodes}
SmiCounts == 0..MaxGpus

\* run.py 69-79: load the backend configuration, parse the filters.
RunStart ==
    /\ pc = "idle"
    /\ \E name \in ConfigNames, present \in BOOLEAN :
          \E r \in {load_config(name, nodes, smi) :
                      nodes \in {n \in NodeFiles : IsNone(n) = ~present}, smi \in SmiCounts} :
             /\ config_name' = name
             /\ node_file' = (IF present THEN "present" ELSE "absent")
             /\ IF r = "ok"
                THEN /\ pc' = "fetch_ready"
                     /\ scheduler' = SCHEDULER(name)
                     /\ \E af \in AppFilters, tf \in TagFilters :
                           /\ app_filter' = af
                           /\ tag_filter' = tf
                     /\ exc' = exc
                ELSE IF r \in {"FileNotFoundError", "ValueError"}
                THEN /\ pc' = "exit1"
                     /\ UNCHANGED <<scheduler, app_filter, tag_filter, exc>>
                ELSE /\ pc' = "crashed"
                     /\ exc' = r
                     /\ UNCHANGED <<scheduler, app_filter, tag_filter>>
    /\ UNCHANGED <<store, retries, runnable, filtered, grouped, gi, ji, futures, awaitVars,
                   unit, marker, hist, cleaned, callVars, app_config>>

\* FetchReady whose result the second query overwrites (= instead of +=).
FetchReadyOverwritten ==
    /\ pc = "fetch_ready"
    /\ runnable' = << >>
    /\ pc' = "fetch_restart"
    /\ UNCHANGED <<store, config_name, node_file, retries, scheduler, app_filter, tag_filter,
                   filtered, grouped, gi, ji, futures, awaitVars, unit, marker, hist,
                   cleaned, exc, callVars, app_config>>

\* run.py 81: the first query.
FetchReady ==
    /\ pc = "fetch_ready"
    /\ runnable' = get_jobs(store, "Ready")
    /\ pc' = "fetch_restart"
    /\ UNCHANGED <<store, config_name, node_file, retries, scheduler, app_filter, tag_filter,
                   filtered, grouped, gi, ji, futures, awaitVars, unit, marker, hist, cleaned, exc, callVars, app_config>>

\* PassesFilters with the two tests joined by "or".
PassesFiltersEither(job, af, tf) ==
    \/ (IsNone(af) \/ Val(af) = {} \/ job.app \in Val(af))
    \/ (IsNone(tf) \/ Val(tf) = {} \/ job.tag \in Val(tf))

\* run.py 86-88
PassesFilters(job, af, tf) ==
    /\ (IsNone(af) \/ Val(af) = {} \/ job.app \in Val(af))
    /\ (IsNone(tf) \/ Val(tf) = {} \/ job.tag \in Val(tf))

\* run.py 99-104: group in the order of first appearance.
RECURSIVE GroupJobs(_, _)
GroupJobs(jobs, acc) ==
    IF jobs = << >> THEN acc
    ELSE LET job == Head(jobs)
             at == {i \in 1..Len(acc) : acc[i].app = job.app}
         IN IF at = {}
            THEN GroupJobs(Tail(jobs), Append(acc, [app |-> job.app, jobs |-> <<job>>]))
            ELSE GroupJobs(Tail(jobs),
                           [acc EXCEPT ![CHOOSE i \in at : TRUE].jobs = Append(@, job)])

\* FetchRestart testing and grouping all_runnable_jobs instead of
\* filtered_jobs.
FetchRestartUnfiltered ==
    /\ pc = "fetch_restart"
    /\ LET all == runnable \o get_jobs(store, "Restart")
           flt == SelectSeq(all, LAMBDA job : PassesFilters(job, app_filter, tag_filter))
       IN /\ runnable' = all
          /\ filtered' = flt
          /\ IF all = << >>
             THEN /\ cleaned' = TRUE
                  /\ pc' = "done"
                  /\ UNCHANGED <<grouped, gi>>
             ELSE /\ grouped' = GroupJobs(all, << >>)
                  /\ gi' = 1
                  /\ pc' = "group"
                  /\ cleaned' = cleaned
    /\ UNCHANGED <<store, config_name, node_file, retries, scheduler, app_filter, tag_filter, ji,
                   futures, awaitVars, unit, marker, hist, exc, callVars, app_config>>

\* run.py 82-104: the second query, the filter, the empty case, the grouping.
FetchRestart ==
    /\ pc = "fetch_restart"
    /\ LET all == runnable \o get_jobs(store, "Restart")
           flt == SelectSeq(all, LAMBDA job : PassesFilters(job, app_filter, tag_filter))
       IN /\ runnable' = all
          /\ filtered' = flt
          /\ IF flt = << >>
             THEN /\ cleaned' = TRUE
                  /\ pc' = "done"
                  /\ UNCHANGED <<grouped, gi>>
             ELSE /\ grouped' = GroupJobs(flt, << >>)
                  /\ gi' = 1
                  /\ pc' = "group"
                  /\ cleaned' = cleaned
    /\ UNCHANGED <<store, config_name, node_file, retries, scheduler, app_filter, tag_filter, ji,
                   futures, awaitVars, unit, marker, hist, exc, callVars, app_config>>

\* The ids of the rows of the store that have the application of the group.
GroupIdsByApp(g) == {j \in DOMAIN store : store[j].app = g.app}

GroupIds(g) == {g.jobs[i].job_id : i \in 1..Len(g.jobs)}

RECURSIVE LogAll(_, _, _)
LogAll(h, S, ev) ==
    IF S = {} THEN h
    ELSE LET j == CHOOSE x \in S : TRUE IN LogAll(Log(h, j, ev), S \ {j}, ev)

\* config.yaml as load_app_config finds it: None when the file does not
\* exist, else the mapping yaml.safe_load returns (application -> system ->
\* the keys configured for the pair).
ConfigFiles ==
    {None,
     Some([lammps |-> [polaris |-> {"executable_path", "mpi_cmd"}]]),
     Some([vasp |-> [sophia |-> {"executable_path"}]])}

\* config_utils.py 35-71: the exception raised (or NULL) and the mapping
\* returned, as the set of its keys.
load_app_config(file, app_name, system_name) ==
    IF IsNone(file)
    THEN [raised |-> "FileNotFoundError", value |-> {}]
    ELSE LET full_config == Val(file) IN
         IF app_name \notin DOMAIN full_config
         THEN [raised |-> NULL, value |-> {}]
         ELSE LET app_configs == full_config[app_name] IN
              IF system_name \notin DOMAIN app_configs
              THEN [raised |-> NULL, value |-> {}]
              ELSE [raised |-> NULL, value |-> app_configs[system_name]]

\* What load_app_config may answer for the group being processed.
AppConfigOutcomes == {load_app_config(f, grouped[gi].app, config_name) : f \in ConfigFiles}

\* run.py 110-118: the application is not in the registry.
GroupUnknownApp ==
    /\ pc = "group"
    /\ gi <= Len(grouped)
    /\ ~is_app_registered(grouped[gi].app)
    /\ store' = SetStatus(store, GroupIds(grouped[gi]), "Failed")
    /\ hist' = LogAll(hist, GroupIds(grouped[gi]), <<"write", "Failed">>)
    /\ app_config' = Append(app_config, None)
    /\ gi' = gi + 1
    /\ UNCHANGED <<pc, fetchVars, ji, futures, awaitVars, unit, marker, cleaned, exc,
                   callVars>>

\* run.py 121-127: load_app_config finds no configuration file.
GroupConfigMissing ==
    /\ pc = "group"
    /\ gi <= Len(grouped)
    /\ is_app_registered(grouped[gi].app)
    /\ \E r \in AppConfigOutcomes : r.raised = "FileNotFoundError"
    /\ store' = SetStatus(store, GroupIds(grouped[gi]), "Failed")
    /\ hist' = LogAll(hist, GroupIds(grouped[gi]), <<"write", "Failed">>)
    /\ app_config' = Append(app_config, None)
    /\ gi' = gi + 1
    /\ UNCHANGED <<pc, fetchVars, ji, futures, awaitVars, unit, marker, cleaned, exc,
                   callVars>>

\* run.py 110-139: plugin and configuration resolved, enter the job loop.
GroupValid ==
    /\ pc = "group"
    /\ gi <= Len(grouped)
    /\ is_app_registered(grouped[gi].app)
    /\ \E r \in AppConfigOutcomes :
          /\ r.raised = NULL
          /\ app_config' = Append(app_config, Some(r.value))
    /\ ji' = 1
    /\ pc' = "pre"
    /\ UNCHANGED <<store, fetchVars, gi, futures, awaitVars, unit, marker, hist,
                   cleaned, exc, callVars>>

CurJob == grouped[gi].jobs[ji]

\* run.py 145-153: app_instance.preprocess(...); an exception it raises is
\* not caught by run.
Preprocess ==
    /\ pc = "pre"
    /\ \E raises \in BOOLEAN :
          IF raises
          THEN /\ hist' = Log(hist, CurJob.job_id, <<"pre", "raise">>)
               /\ pc' = "crashed"
               /\ exc' = "preprocess"
          ELSE /\ hist' = Log(hist, CurJob.job_id, <<"pre", "ok">>)
               /\ pc' = "submit"
               /\ exc' = exc
    /\ UNCHANGED <<store, fetchVars, gi, ji, futures, awaitVars, unit, marker,
                   cleaned, callVars, app_config>>

\* After the job at ji: the next job of the group, or the next group.
AfterJob(next_pc) ==
    IF ji < Len(grouped[gi].jobs)
    THEN /\ ji' = ji + 1
         /\ gi' = gi
         /\ pc' = next_pc
    ELSE /\ ji' = ji
         /\ gi' = gi + 1
         /\ pc' = "group"

\* run.py 161-172 reads these keys of the fetched row.
ExecKeys == {"job_id", "path", "ngpus", "in_file", "mpi_opts"}

\* SubmitJob marking every job of the group Submitted at the group's first
\* job.
SubmitJobWholeGroup ==
    /\ pc = "submit"
    /\ LET j == CurJob.job_id
           s1 == SetStatus(store, GroupIds(grouped[gi]), "Submitted")
           h1 == LogAll(hist, GroupIds(grouped[gi]), <<"write", "Submitted">>)
       IN \E PBS_JOB_ID \in EnvJobIds :
          IF scheduler = "PBS" /\ UpdateRaises({j}, None, Some(PBS_JOB_ID))
          THEN /\ store' = s1
               /\ hist' = h1
               /\ pc' = "crashed"
               /\ exc' = "AttributeError"
               /\ UNCHANGED <<gi, ji, futures, unit>>
          ELSE /\ store' = UpdateJobs(s1, {j}, None, Some(PBS_JOB_ID), None, None, None)
               /\ hist' = Log(Log(h1, j, <<"write", "sched_job_id">>), j, <<"exec", "ok">>)
               /\ futures' = Append(futures, CurJob)
               /\ unit' = [unit EXCEPT ![j] = "queued"]
               /\ exc' = exc
               /\ AfterJob("pre")
    /\ UNCHANGED <<fetchVars, awaitVars, marker, cleaned, callVars, app_config>>

\* run.py 155-173: mark Submitted, record the scheduler job id under PBS,
\* call parsl_app and retain the handle.
SubmitJob ==
    /\ pc = "submit"
    /\ LET j == CurJob.job_id
           s1 == SetStatus(store, {j}, "Submitted")
           h1 == Log(hist, j, <<"write", "Submitted">>)
       IN \E PBS_JOB_ID \in EnvJobIds :
          IF scheduler = "PBS" /\ UpdateRaises({j}, None, Some(PBS_JOB_ID))
          THEN /\ store' = s1
               /\ hist' = h1
               /\ pc' = "crashed"
               /\ exc' = "AttributeError"
               /\ UNCHANGED <<gi, ji, futures, unit>>
          ELSE LET s2 == IF scheduler = "PBS"
                         THEN UpdateJobs(s1, {j}, None, Some(PBS_JOB_ID), None, None, None)
                         ELSE s1
                   h2 == IF scheduler = "PBS"
                         THEN Log(h1, j, <<"write", "sched_job_id">>)
                         ELSE h1
               IN IF ~(ExecKeys \subseteq RowKeys)
                  THEN /\ store' = s2
                       /\ hist' = h2
                       /\ pc' = "crashed"
                       /\ exc' = "KeyError"
                       /\ UNCHANGED <<gi, ji, futures, unit>>
                  ELSE /\ store' = s2
                       /\ hist' = Log(h2, j, <<"exec", "ok">>)
                       /\ futures' = Append(futures, CurJob)
                       /\ unit' = [unit EXCEPT ![j] = "queued"]
                       /\ exc' = exc
                       /\ AfterJob("pre")
    /\ UNCHANGED <<fetchVars, awaitVars, marker, cleaned, callVars, app_config>>

\* SubmissionDone leaving the group loop while groups remain.
SubmissionDoneEarly ==
    /\ pc = "group"
    /\ gi > 1
    /\ pc' = "await"
    /\ idx' = 1
    /\ UNCHANGED <<store, fetchVars, gi, ji, futures, inExcept, job_status, unit,
                   marker, hist, cleaned, exc, callVars, app_config>>

\* run.py 108, 175-178: all groups processed, start awaiting.
SubmissionDone ==
    /\ pc = "group"
    /\ gi > Len(grouped)
    /\ pc' = "await"
    /\ idx' = 1
    /\ UNCHANGED <<store, fetchVars, gi, ji, futures, inExcept, job_status, unit,
                   marker, hist, cleaned, exc, callVars, app_config>>

\* run.py 205-207: every retained handle has been processed.
Cleanup ==
    /\ pc = "await"
    /\ idx > Len(futures)
    /\ cleaned' = TRUE
    /\ pc' = "done"
    /\ UNCHANGED <<store, fetchVars, gi, ji, futures, awaitVars, unit, marker, hist,
                   exc, callVars, app_config>>

\* ------------------------------------------------------ executing units
\* UnitStart whose status update is detached from the command (run in the
\* background): the write may land after the command has exited.
UnitStartDetached(j) ==
    /\ \/ /\ unit[j] = "queued"
          /\ unit' = [unit EXCEPT ![j] = "running"]
          /\ UNCHANGED <<store, hist>>
       \/ /\ unit[j] \in {"running", "ok", "err"}
          /\ Cardinality({i \in 1..Len(hist[j]) : hist[j][i][1] = "unit"}) = 0
          /\ store' = SetStatus(store, {j}, "Running")
          /\ hist' = Log(hist, j, <<"unit", "Running">>)
          /\ unit' = unit
    /\ UNCHANGED <<pc, fetchVars, gi, ji, futures, awaitVars, marker, cleaned, exc,
                   callVars, app_config>>

\* The command a parsl_app returns (lammps.py 57-77, python.py 33-66,
\* vasp.py 34-80): it first sets the status to Running from the worker.
\* A unit the executor runs again writes Running again.
UnitStart(j) ==
    /\ unit[j] = "queued"
    /\ store' = SetStatus(store, {j}, "Running")
    /\ hist' = Log(hist, j, <<"unit", "Running">>)
    /\ unit' = [unit EXCEPT ![j] = "running"]
    /\ UNCHANGED <<pc, fetchVars, gi, ji, futures, awaitVars, marker, cleaned, exc,
                   callVars, app_config>>

\* The number of times the executor has started the unit of job j.
Attempts(j) == Cardinality({i \in 1..Len(hist[j]) : hist[j][i][1] = "unit"})

\* The command then runs the application and exits. On a non-zero exit the
\* executor runs the unit again while retries remain (Config(retries=...),
\* polaris.py 96, sophia.py 108); otherwise the handle completes, and
\* raises when the last exit was non-zero.
UnitFinish(j) ==
    /\ unit[j] = "running"
    /\ \E exit \in {"ok", "err"} :
          unit' = [unit EXCEPT ![j] =
                      IF exit = "err" /\ Attempts(j) <= retries THEN "queued" ELSE exit]
    /\ UNCHANGED <<store, pc, fetchVars, gi, ji, futures, awaitVars, marker, hist,
                   cleaned, exc, callVars, app_config>>

\* ------------------------------------------------------------ await loop
AwaitJob == futures[idx]

\* The statuses run.py 185 and 197 (`if job_status`) take as undetermined:
\* None, which the body of AppBase.check_success returns (base.py 79), and
\* the empty string.
Undetermined == {NULL, ""}

\* check_success that looks for the marker whatever the application.
check_success_by_marker(app, mk) == IF mk THEN "Done" ELSE "Failed"

\* check_success that assumes success from the exit code for every
\* application.
check_success_assumed(app, mk) == "Done"

\* check_success of the plugin registered under app: lammps.py 79-104 looks
\* for the marker in log.lammps (mk: log.lammps is a file that can be read
\* and holds "Total wall time:"); python.py 68-85 and vasp.py 82-96 return
\* "Done".
check_success(app, mk) ==
    IF app = "lammps" THEN (IF mk THEN "Done" ELSE "Failed") ELSE "Done"

\* What check_success of the handle's plugin may return: the determined
\* status of a shipped plugin, an undetermined one for a plugin outside the
\* shipped table.
CheckSuccessReturns(app, mk) ==
    IF is_app_registered(app) THEN {check_success(app, mk)} ELSE Undetermined

\* Reconcile with an undetermined status taken as a failure.
ReconcileUndeterminedFails(js) ==
    IF js \notin {NULL, ""} /\ js # "Failed" THEN "persist_and_postprocess"
    ELSE "persist_failed"

\* Reconcile with the except block marking the job Failed whatever
\* check_success returned.
ReconcileExceptFails(js) ==
    IF inExcept THEN "persist_failed"
    ELSE IF js \notin {NULL, ""} /\ js # "Failed" THEN "persist_and_postprocess"
    ELSE IF js = "Failed" THEN "persist_failed"
    ELSE "nothing"

\* Reconcile without the test for "Failed": every determined status is
\* persisted and post-processed.
ReconcileAlwaysPost(js) ==
    IF js \notin {NULL, ""} THEN "persist_and_postprocess" ELSE "nothing"

\* run.py 185-190 and 197-203: what the orchestrator does with job_status.
Reconcile(js) ==
    IF js \notin {NULL, ""} /\ js # "Failed" THEN "persist_and_postprocess"
    ELSE IF js = "Failed" THEN "persist_failed"
    ELSE "nothing"

\* run.py 182, 192: where an exception raised by a plugin hook goes. In the
\* try block it is caught by the except clause; in the except block it
\* leaves run.
HookRaised(hook) ==
    IF inExcept
    THEN /\ pc' = "crashed"
         /\ exc' = hook
         /\ UNCHANGED <<idx, inExcept, job_status>>
    ELSE /\ pc' = "cs"
         /\ inExcept' = TRUE
         /\ UNCHANGED <<idx, job_status, exc>>

\* The loop moves to the next retained handle.
NextHandle ==
    /\ idx' = idx + 1
    /\ inExcept' = FALSE
    /\ pc' = "await"

\* AwaitResult with a raising handle marked Failed at once, without
\* check_success.
AwaitResultFailsOnRaise ==
    /\ pc = "await"
    /\ idx <= Len(futures)
    /\ unit[AwaitJob.job_id] \in {"ok", "err"}
    /\ IF unit[AwaitJob.job_id] = "err"
       THEN /\ store' = SetStatus(store, {AwaitJob.job_id}, "Failed")
            /\ hist' = Log(Log(hist, AwaitJob.job_id, <<"result", "raise">>),
                           AwaitJob.job_id, <<"write", "Failed">>)
            /\ NextHandle
       ELSE /\ store' = store
            /\ hist' = Log(hist, AwaitJob.job_id, <<"result", "ok">>)
            /\ inExcept' = FALSE
            /\ pc' = "cs"
            /\ idx' = idx
    /\ UNCHANGED <<fetchVars, gi, ji, futures, job_status, unit, marker,
                   cleaned, exc, callVars, app_config>>

\* AwaitResult that does not block until the handle has completed.
AwaitResultNoWait ==
    /\ pc = "await"
    /\ idx <= Len(futures)
    /\ inExcept' = (unit[AwaitJob.job_id] = "err")
    /\ hist' = Log(hist, AwaitJob.job_id,
                   <<"result", IF unit[AwaitJob.job_id] = "err" THEN "raise" ELSE "ok">>)
    /\ pc' = "cs"
    /\ UNCHANGED <<store, fetchVars, gi, ji, futures, idx, job_status, unit, marker,
                   cleaned, exc, callVars, app_config>>

\* run.py 183: fut.result() returns or raises.
AwaitResult ==
    /\ pc = "await"
    /\ idx <= Len(futures)
    /\ unit[AwaitJob.job_id] \in {"ok", "err"}
    /\ inExcept' = (unit[AwaitJob.job_id] = "err")
    /\ hist' = Log(hist, AwaitJob.job_id,
                   <<"result", IF unit[AwaitJob.job_id] = "ok" THEN "ok" ELSE "raise">>)
    /\ pc' = "cs"
    /\ UNCHANGED <<store, fetchVars, gi, ji, futures, idx, job_status, unit, marker,
                   cleaned, exc, callVars, app_config>>

\* run.py 184, 196: app_instance.check_success(...), which writes the
\* status it determined and returns it, or raises.
CheckSuccess ==
    /\ pc = "cs"
    /\ LET j == AwaitJob.job_id IN
       \E raises \in BOOLEAN :
          IF raises
          THEN /\ hist' = Log(hist, j, <<"cs", "raise">>)
               /\ HookRaised("check_success")
               /\ UNCHANGED store
          ELSE \E r \in CheckSuccessReturns(AwaitJob.app, marker[j]) :
               /\ store' = (IF r \in Undetermined THEN store ELSE SetStatus(store, {j}, r))
               /\ job_status' = r
               /\ hist' = Log(hist, j, <<"cs", r>>)
               /\ pc' = "write"
               /\ UNCHANGED <<idx, inExcept, exc>>
    /\ UNCHANGED <<fetchVars, gi, ji, futures, unit, marker, cleaned, callVars, app_config>>

\* run.py 185-190, 197-203: persist the final status.
Persist ==
    /\ pc = "write"
    /\ LET j == AwaitJob.job_id
           what == Reconcile(job_status)
       IN CASE what = "persist_and_postprocess" ->
                 /\ store' = SetStatus(store, {j}, job_status)
                 /\ hist' = Log(hist, j, <<"write", job_status>>)
                 /\ pc' = "post"
                 /\ UNCHANGED <<idx, inExcept>>
            [] what = "persist_failed" ->
                 /\ store' = SetStatus(store, {j}, "Failed")
                 /\ hist' = Log(hist, j, <<"write", "Failed">>)
                 /\ NextHandle
            [] OTHER ->
                 /\ UNCHANGED <<store, hist>>
                 /\ NextHandle
    /\ UNCHANGED <<fetchVars, gi, ji, futures, job_status, unit, marker, cleaned, exc,
                   callVars, app_config>>

\* run.py 188, 200: app_instance.postprocess(...); the three plugins set
\* the status to Done (lammps.py 106-118, python.py 87-101, vasp.py 98-116).
Postprocess ==
    /\ pc = "post"
    /\ LET j == AwaitJob.job_id IN
       \E raises \in BOOLEAN :
          IF raises
          THEN /\ hist' = Log(hist, j, <<"post", "raise">>)
               /\ HookRaised("postprocess")
               /\ UNCHANGED store
          ELSE /\ store' = SetStatus(store, {j}, "Done")
               /\ hist' = Log(hist, j, <<"post", "ok">>)
               /\ NextHandle
               /\ UNCHANGED <<job_status, exc>>
    /\ UNCHANGED <<fetchVars, gi, ji, futures, unit, marker, cleaned, callVars, app_config>>

\* The exit code of the run command once the pass has ended: typer.Exit(1)
\* at run.py 75, 0 when run returns (also after the early return of run.py
\* 93-94), and 1 when an exception leaves run (the interpreter prints the
\* traceback and exits with code 1).
ExitCode ==
    CASE pc = "done" -> 0
      [] pc = "exit1" -> 1
      [] pc = "crashed" -> 1

Next ==
    \/ RunStart
    \/ FetchReady
    \/ FetchRestart
    \/ GroupUnknownApp
    \/ GroupConfigMissing
    \/ GroupValid
    \/ Preprocess
    \/ SubmitJob
    \/ SubmissionDone
    \/ Cleanup

Spec == Init /\ [][Next]_vars

\* ------------------------------------------------------------ SpecAwait
\* The await loop entered with retained handles for the jobs 1..k: each
\* was fetched as Ready, marked Submitted and handed to parsl_app; its unit
\* has not started yet.
AwaitApps == {"lammps", "python"}

InitHandles(apps) ==
    /\ \E k \in 1..MaxHandles :
          /\ store \in Stores({Row(a, "Submitted", 1, NULL, NULL) : a \in apps}, MaxHandles)
          /\ Len(store) = k
          /\ futures = [i \in 1..k |-> [Snapshot(store, i) EXCEPT !.status = "Ready"]]
          /\ unit = [j \in JobIds |-> IF j <= k THEN "queued" ELSE "none"]
          /\ marker \in [JobIds -> BOOLEAN]
          /\ \A j \in JobIds : marker[j] => (j <= k /\ store[j].app = "lammps")
    /\ pc = "await"
    /\ config_name = "polaris"
    /\ node_file = "present"
    /\ retries \in 0..MaxRetries
    /\ scheduler = "PBS"
    /\ app_filter = None
    /\ tag_filter = None
    /\ runnable = futures
    /\ filtered = futures
    /\ grouped = GroupJobs(futures, << >>)
    /\ app_config = [g \in 1..Len(grouped) |-> Some({"executable_path"})]
    /\ gi = Len(grouped) + 1
    /\ ji = 0
    /\ idx = 1
    /\ inExcept = FALSE
    /\ job_status = NULL
    /\ hist = [j \in JobIds |-> << >>]
    /\ cleaned = FALSE
    /\ exc = NULL
    /\ call = None
    /\ pre = None
    /\ ret = None
    /\ peer = None

NextAwait ==
    \/ AwaitResult
    \/ CheckSuccess
    \/ Persist
    \/ Postprocess
    \/ Cleanup
    \/ \E j \in JobIds : UnitStart(j)
    \/ \E j \in JobIds : UnitFinish(j)

InitAwait == InitHandles(AwaitApps)

SpecAwait == InitAwait /\ [][NextAwait]_vars

\* ---------------------------------------------------------- SpecContract
\* The await loop over handles of the plugins that assume success and of a
\* plugin written against AppBase (base.py 63-79) that leaves the status
\* undetermined: such a plugin is not in the shipped APP_FACTORY; the
\* orchestrator's tests on job_status (run.py 185, 197) are written for it.
ContractApps == {"python", "vasp", "custom"}

InitContract == InitHandles(ContractApps)

SpecContract == InitContract /\ [][NextAwait]_vars

\* ----------------------------------------------------------- SpecUpdate
\* update_jobs called once on a store, for every combination of supplied
\* and omitted fields.
UpdRows == {Row(a, s, 1, sj, t) : a \in {"lammps"}, s \in {"Ready", "Submitted"},
                                  sj \in {NULL, "77.pbs"}, t \in {NULL}}
UpdStatusArgs == {None, Some("Done"), Some("running")}
UpdSchedArgs == {None, Some("123.pbs")}
UpdAppArgs == {None, Some("vasp")}
UpdTagArgs == {None, Some("t2")}
UpdNgpusArgs == {None, Some(4)}

InitUpdate ==
    /\ store \in Stores(UpdRows, MaxJobs)
    /\ pc = "idle"
    /\ config_name = NULL
    /\ node_file = NULL
    /\ retries = 0    \* the default of --retries
    /\ scheduler = NULL
    /\ app_filter = None
    /\ tag_filter = None
    /\ runnable = << >>
    /\ filtered = << >>
    /\ grouped = << >>
    /\ app_config = << >>
    /\ gi = 0
    /\ ji = 0
    /\ futures = << >>
    /\ idx = 0
    /\ inExcept = FALSE
    /\ job_status = NULL
    /\ unit = [j \in JobIds |-> "none"]
    /\ marker = [j \in JobIds |-> FALSE]
    /\ hist = [j \in JobIds |-> << >>]
    /\ cleaned = FALSE
    /\ exc = NULL
    /\ call = None
    /\ pre = None
    /\ ret = None
    /\ peer = None

\* database.py 152-211: one call of update_jobs.
UpdateCall ==
    /\ call = None
    /\ \E job_ids \in SUBSET JobIds, status \in UpdStatusArgs, sched \in UpdSchedArgs,
          app \in UpdAppArgs, tag \in UpdTagArgs, ngpus \in UpdNgpusArgs :
          /\ call' = Some([job_ids |-> job_ids, status |-> status, sched_job_id |-> sched,
                            app |-> app, tag |-> tag, ngpus |-> ngpus])
          /\ pre' = Some(store)
          /\ IF UpdateRaises(job_ids, status, sched)
             THEN /\ ret' = Some([raised |-> "AttributeError", count |-> 0])
                  /\ store' = store
             ELSE /\ ret' = Some([raised |-> NULL,
                                  count |-> UpdateCount(store, job_ids, status, sched,
                                                        app, tag, ngpus)])
                  /\ store' = UpdateJobs(store, job_ids, status, sched, app, tag, ngpus)
    /\ UNCHANGED <<pc, fetchVars, gi, ji, futures, awaitVars, unit, marker, hist,
                   cleaned, exc, app_config, peer>>

NextUpdate == UpdateCall

SpecUpdate == InitUpdate /\ [][NextUpdate]_vars

\* ----------------------------------------------------------- SpecShared
\* One run pass on a store that other processes write meanwhile: a client
\* of database.add_job inserting a job, and the update command setting the
\* status of a job. hist records these writes as <<"add", status>> and
\* <<"update", status>>.
MaxEnvWrites == 1

SharedRows == {Row(a, s, 1, NULL, NULL) : a \in {"lammps", "gromacs"}, s \in {"Ready", "Done"}}
SharedStatusArgs == {"Ready", "Restart", "Done"}

EnvEvents == {"add", "update"}
EnvWrites(j) == Cardinality({i \in 1..Len(hist[j]) : hist[j][i][1] \in EnvEvents})
RECURSIVE Sum(_, _)
Sum(f, S) == IF S = {} THEN 0 ELSE LET x == CHOOSE y \in S : TRUE IN f[x] + Sum(f, S \ {x})
TotalEnvWrites == Sum([j \in JobIds |-> EnvWrites(j)], JobIds)

InitShared ==
    /\ store \in Stores(SharedRows, MaxJobs)
    /\ pc = "idle"
    /\ config_name = NULL
    /\ node_file = NULL
    /\ retries = 0    \* the default of --retries
    /\ scheduler = NULL
    /\ app_filter = None
    /\ tag_filter = None
    /\ runnable = << >>
    /\ filtered = << >>
    /\ grouped = << >>
    /\ app_config = << >>
    /\ gi = 0
    /\ ji = 0
    /\ futures = << >>
    /\ idx = 0
    /\ inExcept = FALSE
    /\ job_status = NULL
    /\ unit = [j \in JobIds |-> "none"]
    /\ marker = [j \in JobIds |-> FALSE]
    /\ hist = [j \in JobIds |-> << >>]
    /\ cleaned = FALSE
    /\ exc = NULL
    /\ call = None
    /\ pre = Some(store)
    /\ ret = None
    /\ peer = None

\* The other processes are followed while the pass is under way; what they
\* wrote before it is part of the initial store.
PassRunning == pc \notin {"idle", "done", "crashed", "exit1"}

\* database.py 10: path TEXT NOT NULL UNIQUE. The INSERT of add_job raises
\* sqlite3.IntegrityError when a row has the path already.
AddRaises(st, path) == \E j \in DOMAIN st : st[j].path = path

\* database.py 53-61: add_job inserts a row; its job_id is the largest
\* job_id plus one. The status is stored as given. (Not defined when the
\* INSERT raises.)
add_job(st, path, app, ngpus, tag, status) ==
    Append(st, Rec(path, Row(app, status, ngpus, NULL, tag)))

EnvAddJob ==
    /\ PassRunning
    /\ Len(store) < MaxJobs
    /\ TotalEnvWrites < MaxEnvWrites
    /\ \E app \in {"lammps"}, status \in {"Ready"} :
          /\ ~AddRaises(store, Len(store) + 1)
          /\ store' = add_job(store, Len(store) + 1, app, 1, NULL, status)
          /\ hist' = Log(hist, Len(store) + 1, <<"add", status>>)
    /\ UNCHANGED <<pc, fetchVars, gi, ji, futures, awaitVars, unit, marker, cleaned, exc,
                   callVars, app_config>>

\* update.py 9-52: pbx update <job_id> --status <status>.
EnvUpdate ==
    /\ PassRunning
    /\ TotalEnvWrites < MaxEnvWrites
    /\ \E j \in DOMAIN store, status \in SharedStatusArgs :
          /\ store' = UpdateJobs(store, {j}, Some(status), None, None, None, None)
          /\ hist' = Log(hist, j, <<"update", Capitalize(status)>>)
    /\ UNCHANGED <<pc, fetchVars, gi, ji, futures, awaitVars, unit, marker, cleaned, exc,
                   callVars, app_config>>

NextShared ==
    \/ Next
    \/ EnvAddJob
    \/ EnvUpdate

SpecShared == InitShared /\ [][NextShared]_vars

\* ----------------------------------------------------------- SpecPasses
\* Two run commands started on the same store, each a process of its own
\* with its own locals. The variables of the pass hold the locals of the
\* process that steps; peer holds those of the process that waits. The
\* store, the job directories and hist are shared.
PassesRows == {Row(a, s, 1, NULL, NULL) : a \in {"lammps", "gromacs"}, s \in {"Ready", "Done"}}

Locals ==
    [pc |-> pc, config_name |-> config_name, node_file |-> node_file, retries |-> retries,
     scheduler |-> scheduler, app_filter |-> app_filter, tag_filter |-> tag_filter,
     runnable |-> runnable, filtered |-> filtered, grouped |-> grouped,
     app_config |-> app_config, gi |-> gi, ji |-> ji, futures |-> futures, idx |-> idx,
     inExcept |-> inExcept, job_status |-> job_status, cleaned |-> cleaned, exc |-> exc]

InitPasses ==
    /\ store \in Stores(PassesRows, MaxJobs)
    /\ pc = "idle"
    /\ config_name = NULL
    /\ node_file = NULL
    /\ retries = 0
    /\ scheduler = NULL
    /\ app_filter = None
    /\ tag_filter = None
    /\ runnable = << >>
    /\ filtered = << >>
    /\ grouped = << >>
    /\ app_config = << >>
    /\ gi = 0
    /\ ji = 0
    /\ futures = << >>
    /\ idx = 0
    /\ inExcept = FALSE
    /\ job_status = NULL
    /\ unit = [j \in JobIds |-> "none"]
    /\ marker = [j \in JobIds |-> FALSE]
    /\ hist = [j \in JobIds |-> << >>]
    /\ cleaned = FALSE
    /\ exc = NULL
    /\ call = None
    /\ pre = Some(store)
    /\ ret = None
    /\ peer = Some(Locals)

\* The operating system lets the other process step: it has not ended.
Switch ==
    /\ Val(peer).pc \notin {"done", "crashed", "exit1"}
    /\ LET o == Val(peer)
       IN /\ pc' = o.pc
          /\ config_name' = o.config_name
          /\ node_file' = o.node_file
          /\ retries' = o.retries
          /\ scheduler' = o.scheduler
          /\ app_filter' = o.app_filter
          /\ tag_filter' = o.tag_filter
          /\ runnable' = o.runnable
          /\ filtered' = o.filtered
          /\ grouped' = o.grouped
          /\ app_config' = o.app_config
          /\ gi' = o.gi
          /\ ji' = o.ji
          /\ futures' = o.futures
          /\ idx' = o.idx
          /\ inExcept' = o.inExcept
          /\ job_status' = o.job_status
          /\ cleaned' = o.cleaned
          /\ exc' = o.exc
    /\ peer' = Some(Locals)
    /\ UNCHANGED <<store, unit, marker, hist, call, pre, ret>>

NextPasses ==
    \/ Next
    \/ Switch

SpecPasses == InitPasses /\ [][NextPasses]_vars

\* ------------------------------------------------------------ SpecStore
\* The store under its clients, from the empty table that
\* initialize_database creates: the add command, the update command, a
\* client calling database.add_job, and a client resolving a plugin by
\* name. call, pre and ret hold the last operation, the store before it and
\* its outcome.
Dirs == 1..MaxDirs
\* The paths argument of the add command: one directory or two.
PathLists == {<<p>> : p \in Dirs} \cup {l \in {<<p, q>> : p \in Dirs, q \in Dirs} : l[1] # l[2]}
AddApps == {"lammps", "gromacs"}
AddStatusArgs == {None, Some("ready")}
AddNgpusArgs == {4}
CmdStatusArgs == {None, Some("READY")}
CmdNgpusArgs == {None, Some(0)}
ResolveNames == {"lammps", "vasp", "python", "gromacs", "LAMMPS"}

InitStore ==
    /\ store = << >>
    /\ pc = "idle"
    /\ config_name = NULL
    /\ node_file = NULL
    /\ retries = 0    \* the default of --retries
    /\ scheduler = NULL
    /\ app_filter = None
    /\ tag_filter = None
    /\ runnable = << >>
    /\ filtered = << >>
    /\ grouped = << >>
    /\ app_config = << >>
    /\ gi = 0
    /\ ji = 0
    /\ futures = << >>
    /\ idx = 0
    /\ inExcept = FALSE
    /\ job_status = NULL
    /\ unit = [j \in JobIds |-> "none"]
    /\ marker = [j \in JobIds |-> FALSE]
    /\ hist = [j \in JobIds |-> << >>]
    /\ cleaned = FALSE
    /\ exc = NULL
    /\ call = None
    /\ pre = None
    /\ ret = None
    /\ peer = None

Op(op, paths, job_ids, app, status, ngpus) ==
    Some([op |-> op, paths |-> paths, job_ids |-> job_ids, app |-> app, status |-> status,
          ngpus |-> ngpus])
Outcome(raised, value, listed) == Some([raised |-> raised, value |-> value, listed |-> listed])

\* database.py 53: status: str = 'Created'.
AddJobStatus(status) == IF IsNone(status) THEN "Created" ELSE Val(status)

\* A client calls database.add_job(db_path, path, app, ngpus, tag[, status]).
AddJobCall ==
    /\ \E path \in Dirs, status \in AddStatusArgs, ngpus \in AddNgpusArgs :
          /\ call' = Op("add_job", <<path>>, {}, "lammps", status, Some(ngpus))
          /\ pre' = Some(store)
          /\ IF AddRaises(store, path)
             THEN /\ ret' = Outcome("IntegrityError", 0, {})
                  /\ store' = store
             ELSE /\ ret' = Outcome(NULL, Len(store) + 1, {})
                  /\ store' = add_job(store, path, "lammps", ngpus, NULL, AddJobStatus(status))
    /\ UNCHANGED <<pc, fetchVars, gi, ji, futures, awaitVars, unit, marker, hist,
                   cleaned, exc, app_config, peer>>

\* add.py 119-128: the keywords the add command passes to add_job, and
\* database.py 53: the parameters add_job has.
AddJobKeywords == {"db_path", "path", "app", "ngpus", "tag", "in_file", "mpi_opts", "status"}
AddJobParameters == {"db_path", "path", "app", "ngpus", "tag", "status"}

\* add.py 117-134: every path is added; a path the table has already is
\* skipped (except sqlite3.IntegrityError).
RECURSIVE AddPaths(_, _, _, _, _, _)
AddPaths(st, paths, app, ngpus, tag, status) ==
    IF paths = << >> THEN st
    ELSE AddPaths(IF AddRaises(st, Head(paths)) THEN st
                  ELSE add_job(st, Head(paths), app, ngpus, tag, status),
                  Tail(paths), app, ngpus, tag, status)

\* add.py 12-140: pbx add <paths> --app <app> [--ngpus n]; --status
\* defaults to "Ready". The call of add_job raises TypeError for
\* the keywords add_job does not have; add catches IntegrityError only.
AddCommand ==
    /\ \E paths \in PathLists, app \in AddApps, status \in {None}, ngpus \in AddNgpusArgs :
          /\ call' = Op("add", paths, {}, app, status, Some(ngpus))
          /\ pre' = Some(store)
          /\ IF ~is_app_registered(app)
             THEN /\ ret' = Outcome("Exit1", 0, {})
                  /\ store' = store
             ELSE IF ~(AddJobKeywords \subseteq AddJobParameters)
             THEN /\ ret' = Outcome("TypeError", 0, {})
                  /\ store' = store
             ELSE /\ store' = AddPaths(store, paths, app, ngpus, NULL,
                                       IF IsNone(status) THEN "Ready" ELSE Val(status))
                  /\ ret' = Outcome(NULL, Len(store') - Len(store), {})
    /\ UNCHANGED <<pc, fetchVars, gi, ji, futures, awaitVars, unit, marker, hist,
                   cleaned, exc, app_config, peer>>

\* update.py 9-52: pbx update <job_id> [--status s] [--ngpus n]; without
\* a field the command exits with code 1.
UpdateCommand ==
    /\ \E job_ids \in {{j} : j \in Dirs}, status \in CmdStatusArgs, ngpus \in CmdNgpusArgs :
          /\ \A j \in job_ids \cap DOMAIN store : store[j].timestamp < MaxUpdates
          /\ call' = Op("update", << >>, job_ids, NULL, status, ngpus)
          /\ pre' = Some(store)
          /\ IF IsNone(status) /\ IsNone(ngpus)
             THEN /\ ret' = Outcome("Exit1", 0, {})
                  /\ store' = store
             ELSE /\ ret' = Outcome(NULL, UpdateCount(store, job_ids, status, None, None, None,
                                                      ngpus), {})
                  /\ store' = UpdateJobs(store, job_ids, status, None, None, None, ngpus)
    /\ UNCHANGED <<pc, fetchVars, gi, ji, futures, awaitVars, unit, marker, hist,
                   cleaned, exc, app_config, peer>>

\* app_registry.py 44-58: get_app_instance(app_name).
ResolveCall ==
    /\ \E app_name \in ResolveNames :
          /\ call' = Op("get_app_instance", << >>, {}, app_name, None, None)
          /\ ret' = Some(get_app_class(app_name))
    /\ pre' = Some(store)
    /\ UNCHANGED <<store, pc, fetchVars, gi, ji, futures, awaitVars, unit, marker, hist,
                   cleaned, exc, app_config, peer>>

\* database.py 133-150: the rows with the given ids, ascending by job_id.
get_jobs_by_ids(st, job_ids) ==
    LET ids == SortedIds({job_ids[i] : i \in 1..Len(job_ids)} \cap DOMAIN st)
    IN [i \in 1..Len(ids) |-> Snapshot(st, ids[i])]

\* The id lists a client passes: no id twice, ids of jobs and ids no job
\* has, in any order; the empty list.
IdLists ==
    {<< >>} \cup {<<j>> : j \in Dirs}
            \cup {l \in {<<j, k>> : j \in Dirs, k \in Dirs} : l[1] # l[2]}

\* info.py 28: a client calls database.get_jobs_by_ids(db_path, job_ids).
GetJobsByIdsCall ==
    /\ \E job_ids \in IdLists :
          /\ call' = Op("get_jobs_by_ids", << >>, job_ids, NULL, None, None)
          /\ ret' = Outcome(NULL, get_jobs_by_ids(store, job_ids), {})
    /\ pre' = Some(store)
    /\ UNCHANGED <<store, pc, fetchVars, gi, ji, futures, awaitVars, unit, marker, hist,
                   cleaned, exc, app_config, peer>>

NextStore ==
    \/ AddJobCall
    \/ AddCommand
    \/ UpdateCommand
    \/ ResolveCall
    \/ GetJobsByIdsCall

SpecStore == InitStore /\ [][NextStore]_vars

\* =============================================================== claims
Has(j, ev) == \E i \in 1..Len(hist[j]) : hist[j][i] = ev
Count(j, what) == Cardinality({i \in 1..Len(hist[j]) : hist[j][i][1] = what})
HookCalled(j) == \E i \in 1..Len(hist[j]) : hist[j][i][1] \in {"pre", "exec", "cs", "post"}
Terminal == {"Done", "Failed"}
FilteredIds == {filtered[i].job_id : i \in 1..Len(filtered)}
FilteredApp(j) == (CHOOSE job \in {filtered[i] : i \in 1..Len(filtered)} : job.job_id = j).app
PassEnded == pc \in {"done", "crashed"}
\* The await loop is through with the handle of job j.
Finished(j) ==
    \E i \in 1..Len(futures) :
        /\ futures[i].job_id = j
        /\ (i < idx \/ PassEnded)

\* C1: after a run pass over jobs of a registered and of an unregistered
\* application (no plugin hook raising, every configuration found), every
\* job of the unregistered application is Failed with no hook called for
\* it, every job of the registered application went through Submitted to
\* Done or Failed, and no exception escaped the pass.
C1_GroupIsolation ==
    ( /\ PassEnded
      /\ exc # "preprocess"
      /\ \E j \in FilteredIds : is_app_registered(FilteredApp(j))
      /\ \E j \in FilteredIds : ~is_app_registered(FilteredApp(j))
      /\ \A j \in FilteredIds :
            is_app_registered(FilteredApp(j)) => hist[j] # << <<"write", "Failed">> >> )
    => /\ pc = "done"
       /\ \A j \in FilteredIds :
            IF is_app_registered(FilteredApp(j))
            THEN Has(j, <<"write", "Submitted">>) /\ store[j].status \in Terminal
            ELSE store[j].status = "Failed" /\ ~HookCalled(j)

\* C2: once the loop is through with a job whose handle raised and whose
\* check_success returned Done, the job's status is Done and postprocess
\* was invoked exactly once for it.
C2_ExceptionPathDone ==
    \A j \in JobIds :
        (Finished(j) /\ Has(j, <<"result", "raise">>) /\ Has(j, <<"cs", "Done">>))
        => (store[j].status = "Done" /\ Count(j, "post") = 1)

C2_Witness ==
    \E j \in JobIds :
        /\ pc = "done"
        /\ Has(j, <<"result", "raise">>)
        /\ Has(j, <<"cs", "Done">>)
        /\ Has(j, <<"post", "ok">>)
        /\ store[j].status = "Done"

\* C3: every invocation of postprocess for a job follows a check_success
\* for it whose latest return was not Failed; and once the loop is through
\* with a job whose handle completed cleanly and whose check_success
\* returned Failed, its status is Failed and postprocess was never invoked.
C3_PostOnlyAfterSuccess ==
    \A j \in JobIds :
        /\ \A i \in 1..Len(hist[j]) :
              hist[j][i][1] = "post" =>
                \E k \in 1..(i - 1) :
                    /\ hist[j][k][1] = "cs"
                    /\ hist[j][k][2] \notin {"Failed", "raise"}
                    /\ \A m \in (k + 1)..(i - 1) : hist[j][m][1] # "cs"
        /\ (Finished(j) /\ Has(j, <<"result", "ok">>) /\ Has(j, <<"cs", "Failed">>))
           => (store[j].status = "Failed" /\ Count(j, "post") = 0)

C3_Witness ==
    \E j \in JobIds :
        /\ pc = "done"
        /\ Has(j, <<"result", "ok">>)
        /\ Has(j, <<"cs", "Failed">>)
        /\ store[j].status = "Failed"
        /\ \E k \in JobIds : Has(k, <<"post", "ok">>)

\* C4: in the await loop the orchestrator writes Failed for a job only
\* directly after a check_success for that job that returned Failed.
C4_FailedOnlyFromCheck ==
    \A j \in JobIds :
        \A i \in 1..Len(hist[j]) :
            hist[j][i] = <<"write", "Failed">>
            => (i > 1 /\ hist[j][i - 1] = <<"cs", "Failed">>)

C4_Witness ==
    \E j \in JobIds :
        /\ Finished(j)
        /\ Has(j, <<"result", "raise">>)
        /\ Has(j, <<"write", "Failed">>)

\* C5: when preprocess raised for a job, execute was not called for it, and
\* by the end of the pass every other filtered job of a registered
\* application was preprocessed, marked Submitted, executed, awaited and
\* reconciled (or failed with its group for want of a configuration file).
C5_PreprocessFailureIsolated ==
    \A j \in FilteredIds :
        (PassEnded /\ Has(j, <<"pre", "raise">>))
        => /\ ~Has(j, <<"exec", "ok">>)
           /\ \A k \in FilteredIds \ {j} :
                is_app_registered(FilteredApp(k)) =>
                  \/ hist[k] = << <<"write", "Failed">> >>
                  \/ /\ Has(k, <<"pre", "ok">>)
                     /\ Has(k, <<"write", "Submitted">>)
                     /\ Has(k, <<"exec", "ok">>)
                     /\ Count(k, "result") = 1
                     /\ store[k].status \in Terminal

\* C6: a check_success or postprocess that raised for one handle is
\* contained: no exception escapes the await loop, and when the loop has
\* ended every other retained handle was awaited and its job has a final
\* status.
C6_AwaitErrorsContained ==
    \A j \in JobIds :
        (Has(j, <<"cs", "raise">>) \/ Has(j, <<"post", "raise">>))
        => /\ pc # "crashed"
           /\ PassEnded =>
                \A i \in 1..Len(futures) :
                    futures[i].job_id # j =>
                      /\ Count(futures[i].job_id, "result") = 1
                      /\ store[futures[i].job_id].status \in Terminal

\* C7: a pass that loaded the backend configuration has released the
\* executor when it ends, on every path.
C7_CleanupOnEveryPath ==
    (PassEnded /\ scheduler # NULL) => cleaned

\* C8: under PBS, a job the orchestrator has marked Submitted (no plugin
\* hook raising) has the environment's batch job identifier, or the local
\* fallback, in scheduler_job_id, and execute was called for it.
C8_SchedulerIdRecorded ==
    \A j \in JobIds :
        (scheduler = "PBS" /\ exc # "preprocess" /\ Has(j, <<"write", "Submitted">>))
        => /\ store[j].sched_job_id \in EnvJobIds
           /\ Has(j, <<"write", "sched_job_id">>)
           /\ Has(j, <<"exec", "ok">>)

\* C9: update_jobs returns normally; every addressed row has each supplied
\* field at the supplied value (the status in canonical capitalization)
\* and every other field unchanged; rows not addressed are unchanged; with
\* a field supplied, the value returned is the number of addressed rows
\* present (0 for an empty id set).
C9_UpdateSetsSuppliedFields ==
    call # None =>
      LET c == Val(call)
          old == Val(pre)
          r == Val(ret)
          Expected(f, row) ==
              CASE f = "status" -> IF IsNone(c.status) THEN row[f] ELSE Capitalize(Val(c.status))
                [] f = "sched_job_id" ->
                     IF IsNone(c.sched_job_id) THEN row[f] ELSE Val(c.sched_job_id)
                [] f = "app" -> IF IsNone(c.app) THEN row[f] ELSE Val(c.app)
                [] f = "tag" -> IF IsNone(c.tag) THEN row[f] ELSE Val(c.tag)
                [] f = "ngpus" -> IF IsNone(c.ngpus) THEN row[f] ELSE Val(c.ngpus)
                [] f = "path" -> row[f]
      IN /\ r.raised = NULL
         /\ DOMAIN store = DOMAIN old
         /\ \A j \in DOMAIN old :
               IF j \in c.job_ids
               THEN \A f \in DOMAIN old[j] \ {"timestamp"} : store[j][f] = Expected(f, old[j])
               ELSE store[j] = old[j]
         /\ (SetFields(c.status, c.sched_job_id, c.app, c.tag, c.ngpus) # {})
            => r.count = Cardinality(c.job_ids \cap DOMAIN old)

\* C10: for a job the orchestrator has marked Submitted (no plugin hook
\* raising), the calls and writes made for it begin, in this order, with
\* preprocess returning, the Submitted write, the scheduler_job_id write and
\* the call of execute; the unit's Running write comes later.
C10_SubmissionOrder ==
    \A j \in JobIds :
        (exc # "preprocess" /\ Has(j, <<"write", "Submitted">>))
        => /\ Len(hist[j]) >= 4
           /\ SubSeq(hist[j], 1, 4) = << <<"pre", "ok">>, <<"write", "Submitted">>,
                                         <<"write", "sched_job_id">>, <<"exec", "ok">> >>
           /\ \A i \in 1..Len(hist[j]) : hist[j][i] = <<"unit", "Running">> => i > 4

\* The jobs of the groups whose plugin and configuration were resolved: the
\* filtered jobs of a registered application that were not failed with
\* their group.
ValidGroupIds ==
    {j \in FilteredIds :
        /\ is_app_registered(FilteredApp(j))
        /\ (hist[j] = << >> \/ hist[j][1] # <<"write", "Failed">>)}
AwaitStarted ==
    \/ pc \in {"await", "cs", "write", "post"}
    \/ \E j \in JobIds : Count(j, "result") + Count(j, "cs") + Count(j, "post") > 0

Rank(status) ==
    CASE status \in {"Ready", "Restart"} -> 0
      [] status = "Submitted" -> 1
      [] status = "Running" -> 2
      [] status \in Terminal -> 3

\* C12: no write of the pass (orchestrator, plugin hook or executing unit)
\* moves the status of a job backwards along {Ready, Restart} -> Submitted
\* -> Running -> {Done, Failed}.
C12_StatusMonotonic ==
    [][\A j \in DOMAIN store \cap DOMAIN store' :
          Rank(store'[j].status) >= Rank(store[j].status)]_vars

C12_Witness ==
    \E j \in JobIds :
        /\ Finished(j)
        /\ Has(j, <<"unit", "Running">>)
        /\ Has(j, <<"write", "Done">>)
        /\ Has(j, <<"post", "ok">>)
        /\ store[j].status = "Done"

\* The statuses get_jobs is asked for by the pass.
RunnableStatuses == {"Ready", "Restart"}

\* C13: a job whose status was not Ready or Restart when the pass fetched
\* has no plugin hook called for it and its record is as it was.
C13_OnlyRunnableProcessed ==
    \A j \in DOMAIN store :
        Val(pre)[j].status \notin RunnableStatuses
        => (hist[j] = << >> /\ store[j] = Val(pre)[j])

C13_Witness ==
    /\ PassEnded
    /\ \E j \in DOMAIN store :
          /\ Val(pre)[j].status = "Done"
          /\ PassesFilters(Snapshot(store, j), app_filter, tag_filter)
          /\ store[j] = Val(pre)[j]
    /\ \E k \in DOMAIN store : Has(k, <<"write", "Submitted">>)
    /\ \E k \in DOMAIN store : Has(k, <<"write", "Failed">>)

RunnableIds == {runnable[i].job_id : i \in 1..Len(runnable)}
FetchOver == pc \notin {"idle", "fetch_ready", "fetch_restart"}
PassEvents(j) == SelectSeq(hist[j], LAMBDA e : e[1] \notin EnvEvents)
\* The status the other writers left in the record of job j.
LastEnvStatus(j) ==
    LET env == SelectSeq(hist[j], LAMBDA e : e[1] \in EnvEvents)
    IN IF env = << >> THEN Val(pre)[j].status ELSE env[Len(env)][2]
\* The ids a pass starting now would fetch.
NextFetchIds ==
    LET all == get_jobs(store, "Ready") \o get_jobs(store, "Restart")
    IN {all[i].job_id : i \in 1..Len(all)}

\* C14: once the pass has fetched, a job that is not among the fetched rows
\* (it was added, or set to Ready or Restart, afterwards) has no hook
\* called and no write made for it by the pass: its status is the one the
\* other writer left; and when the pass has ended with the job Ready or
\* Restart, a pass starting then fetches it.
C14_FetchSnapshot ==
    FetchOver =>
        \A j \in DOMAIN store \ RunnableIds :
            /\ PassEvents(j) = << >>
            /\ store[j].status = LastEnvStatus(j)
            /\ (PassEnded /\ store[j].status \in RunnableStatuses) => j \in NextFetchIds

C14_Witness ==
    /\ PassEnded
    /\ \E j \in DOMAIN store \ DOMAIN Val(pre) :
          /\ store[j].status = "Ready"
          /\ \E k \in FilteredIds : FilteredApp(k) = store[j].app /\ PassEvents(k) # << >>

\* The configuration loaded and both queries were made.
Fetched == scheduler # NULL /\ FetchOver
Occurrences(seq, j) == Cardinality({i \in 1..Len(seq) : seq[i].job_id = j})

\* C15: with no application filter and no tag filter, a job that was Ready
\* or Restart when the pass fetched occurs exactly once in the filtered
\* set, and every other job does not occur in it.
C15_EachRunnableOnce ==
    (Fetched /\ IsNone(app_filter) /\ IsNone(tag_filter)) =>
        /\ FilteredIds \subseteq DOMAIN store
        /\ \A j \in DOMAIN store :
              Occurrences(filtered, j) =
                  (IF Val(pre)[j].status \in RunnableStatuses THEN 1 ELSE 0)

C15_Witness ==
    /\ Fetched
    /\ IsNone(app_filter)
    /\ IsNone(tag_filter)
    /\ \E i, j, k \in DOMAIN store :
          /\ i < j
          /\ Val(pre)[i].status = "Restart"
          /\ Val(pre)[j].status = "Ready"
          /\ Val(pre)[k].status = "Done"
          /\ Len(filtered) = 2

RunnableRow(j) == CHOOSE job \in {runnable[i] : i \in 1..Len(runnable)} : job.job_id = j

\* C16: the filtered set holds each fetched job at most once and is, with
\* an application filter A, the fetched jobs whose application is in A;
\* with a tag filter T, those whose tag is set and in T; with both, those
\* meeting both; with neither, all fetched jobs.
C16_FilterSemantics ==
    Fetched =>
        /\ \A j \in FilteredIds : Occurrences(filtered, j) = 1
        /\ FilteredIds =
             {j \in RunnableIds :
                 /\ IsNone(app_filter) \/ RunnableRow(j).app \in Val(app_filter)
                 /\ IsNone(tag_filter) \/
                      (RunnableRow(j).tag # NULL /\ RunnableRow(j).tag \in Val(tag_filter))}

C16_Witness ==
    /\ Fetched
    /\ ~IsNone(app_filter)
    /\ ~IsNone(tag_filter)
    /\ Len(filtered) = 1
    /\ \E j \in RunnableIds :
          RunnableRow(j).app \in Val(app_filter) /\ RunnableRow(j).tag = NULL
    /\ \E j \in RunnableIds :
          RunnableRow(j).app \notin Val(app_filter) /\ RunnableRow(j).tag \in Val(tag_filter)

\* C17: once run has tried to load the backend configuration of an unknown
\* system name, or of any system with no node list file, the pass has ended
\* with exit code 1: nothing was fetched, no plugin hook was called, no
\* handle exists and the store is as it was.
C17_ConfigFailureAborts ==
    (pc # "idle" /\ (config_name \notin CONFIG_FACTORIES \/ node_file = "absent")) =>
        /\ pc = "exit1"
        /\ runnable = << >>
        /\ futures = << >>
        /\ \A j \in JobIds : hist[j] = << >>
        /\ store = Val(pre)

C17_Witness ==
    /\ pc = "exit1"
    /\ config_name \in CONFIG_FACTORIES
    /\ node_file = "absent"
    /\ \E j \in DOMAIN store : store[j].status = "Ready"

\* C18: a pass whose filtered set is empty has ended cleanly: the executor
\* was released and no exception raised, no group was formed (no plugin
\* resolved), no hook was called, no handle exists and the store is as it
\* was.
C18_EmptySetNoOp ==
    (Fetched /\ filtered = << >>) =>
        /\ pc = "done"
        /\ cleaned
        /\ exc = NULL
        /\ grouped = << >>
        /\ futures = << >>
        /\ \A j \in JobIds : hist[j] = << >>
        /\ store = Val(pre)

C18_Witness ==
    /\ pc = "done"
    /\ filtered = << >>
    /\ Len(runnable) >= 2
    /\ ~IsNone(tag_filter)

\* C19: when a pass whose backend configuration loaded has ended (no
\* preprocess raising), every job of its filtered set has a terminal
\* status in the store: none is left Ready, Restart, Submitted or Running.
C19_AllReconciled ==
    (PassEnded /\ scheduler # NULL /\ exc # "preprocess") =>
        \A j \in FilteredIds : store[j].status \in Terminal

\* The orchestrator is inside steps 1-4 of the job CurJob: preprocess has
\* been called and has not returned yet (pc = "pre"), or it has returned
\* and the Submitted and scheduler-id writes and execute are to come
\* (pc = "submit").
InSubmission == pc \in {"pre", "submit"}

HandleCompleted(j) == unit[j] \in {"ok", "err"}

\* C21: the executing unit of a job writes Running only while the job's
\* handle has not completed, whatever the interleaving of the units and
\* however often the executor runs the unit again; a Running status changes
\* only to Done or Failed, and a Done or Failed status never changes to
\* Running.
C21_RunningBeforeCompletion ==
    [][\A j \in DOMAIN store :
          /\ (Attempts(j)' > Attempts(j)) => (~HandleCompleted(j) /\ ~Has(j, <<"result", "ok">>)
                                               /\ ~Has(j, <<"result", "raise">>))
          /\ (store[j].status = "Running" /\ store'[j].status # "Running")
                => store'[j].status \in Terminal
          /\ (store[j].status \in Terminal) => store'[j].status # "Running"]_vars

\* A unit that the executor ran twice (two Running writes) and whose job was
\* then reconciled to a terminal status.
C21_Witness ==
    \E j \in JobIds :
        /\ Attempts(j) = 2
        /\ Finished(j)
        /\ Has(j, <<"result", "raise">>)
        /\ store[j].status \in Terminal

\* The mapping with no entry, as load_app_config returns it for an
\* application or an (application, system) pair that config.yaml lacks.
EmptyMapping == Some({})

\* C22: when a pass has ended (no preprocess raising), every job of a group
\* for which load_app_config returned the empty mapping has been
\* preprocessed, marked Submitted and handed to parsl_app: the group was
\* not failed for lack of configuration.
C22_EmptyConfigNotFatal ==
    (PassEnded /\ exc # "preprocess") =>
        \A g \in 1..Len(app_config) :
            app_config[g] = EmptyMapping =>
                \A j \in GroupIds(grouped[g]) :
                    /\ Has(j, <<"pre", "ok">>)
                    /\ Has(j, <<"write", "Submitted">>)
                    /\ Has(j, <<"exec", "ok">>)
                    /\ ~Has(j, <<"write", "Failed">>)

\* The columns of a job that a run pass has no business writing.
PassFrameColumns == {"path", "app", "ngpus", "tag"}

\* C23: at every point of a run pass the store holds the job ids it held
\* before the pass; every job has the path, application, accelerator count
\* and tag it had before; and a job outside the filtered set has the very
\* record it had before (status, scheduler job id and timestamp included).
C23_PassFrame ==
    LET old == Val(pre) IN
    /\ DOMAIN store = DOMAIN old
    /\ \A j \in DOMAIN old : \A f \in PassFrameColumns : store[j][f] = old[j][f]
    /\ \A j \in DOMAIN old \ FilteredIds : store[j] = old[j]

\* A pass that ended after writing the status of a filtered job, with a
\* runnable job that the filters kept out of the pass.
C23_Witness ==
    /\ PassEnded
    /\ \E j \in FilteredIds :
          /\ store[j].status # Val(pre)[j].status
          /\ store[j].timestamp > Val(pre)[j].timestamp
    /\ \E k \in DOMAIN store \ FilteredIds : store[k].status \in RunnableStatuses

\* The update_jobs call was made with ids and with no field at all.
NoFieldCall ==
    /\ call # None
    /\ Val(call).job_ids # {}
    /\ SetFields(Val(call).status, Val(call).sched_job_id, Val(call).app, Val(call).tag,
                 Val(call).ngpus) = {}

\* C24: update_jobs called with a non-empty id set and no field returns 0
\* and leaves the store as it was, timestamps of the addressed jobs
\* included.
C24_NoFieldsNoOp ==
    NoFieldCall =>
        /\ Val(ret).raised = NULL
        /\ Val(ret).count = 0
        /\ store = Val(pre)

\* Such a call addressing jobs that exist.
C24_Witness ==
    /\ NoFieldCall
    /\ Cardinality(Val(call).job_ids \cap DOMAIN store) >= 2
    /\ Val(ret).count = 0

\* The last operation on the store was op.
LastOp(op) == call # None /\ Val(call).op = op
\* The paths of the rows of a store.
PathsOf(st) == {st[j].path : j \in DOMAIN st}
\* The directories named in the last operation.
CallPaths == {Val(call).paths[i] : i \in 1..Len(Val(call).paths)}

\* C25: an add of a directory that a job has already is rejected and
\* leaves the store as it was, and an add command with several paths (for
\* a registered application) still adds every path that no job has: the
\* old records are unchanged and the job count grows by the number of new
\* paths.
C25_DuplicateAddRejected ==
    /\ (LastOp("add_job") /\ AddRaises(Val(pre), Val(call).paths[1]))
          => (Val(ret).raised = "IntegrityError" /\ store = Val(pre))
    /\ (LastOp("add") /\ is_app_registered(Val(call).app))
          => /\ \A j \in DOMAIN Val(pre) : j \in DOMAIN store /\ store[j] = Val(pre)[j]
             /\ PathsOf(store) = PathsOf(Val(pre)) \cup CallPaths
             /\ Len(store) = Len(Val(pre)) + Cardinality(CallPaths \ PathsOf(Val(pre)))

\* The jobs the last operation inserted.
AddedIds == DOMAIN store \ DOMAIN Val(pre)

\* C26: after an add for a new directory with ngpus 4 and no status given
\* (by the add command or by add_job), the directory has a job, and
\* get_jobs_by_ids for its id returns exactly one row, with ngpus 4 and
\* status "Ready".
C26_AddQueryRoundTrip ==
    ((LastOp("add") \/ LastOp("add_job"))
        /\ (LastOp("add") => is_app_registered(Val(call).app))
        /\ IsNone(Val(call).status)
        /\ Val(call).ngpus = Some(4)
        /\ CallPaths \cap PathsOf(Val(pre)) = {})
    => /\ Cardinality(AddedIds) = Cardinality(CallPaths)
       /\ \A j \in AddedIds :
             LET rows == get_jobs_by_ids(store, <<j>>) IN
             /\ Len(rows) = 1
             /\ rows[1].job_id = j
             /\ rows[1].ngpus = 4
             /\ rows[1].status = "Ready"

CanonicalStatuses == {"Ready", "Restart", "Submitted", "Running", "Done", "Failed"}

\* C27: every status in the store is one of the six canonical spellings,
\* and a job whose status is Ready in any letter case is returned by
\* get_jobs(status='Ready').
C27_StatusCanonical ==
    \A j \in DOMAIN store :
        /\ store[j].status \in CanonicalStatuses
        /\ Capitalize(store[j].status) = "Ready"
              => \E i \in 1..Len(get_jobs(store, "Ready")) : get_jobs(store, "Ready")[i].job_id = j

\* C28: every job in the store has ngpus >= 1.
C28_AcceleratorCountPositive ==
    \A j \in DOMAIN store : store[j].ngpus >= 1

\* C30: get_app_instance of a name in APP_FACTORY returns (an instance of)
\* the class registered under the name; of any other name it raises
\* ValueError with a message listing every registered name.
C30_ResolveByName ==
    LastOp("get_app_instance") =>
        LET app_name == Val(call).app
            r == Val(ret)
        IN IF app_name \in {"lammps", "vasp", "python"}
           THEN /\ r.raised = NULL
                /\ r.value = APP_FACTORY[app_name]
                /\ \A other \in DOMAIN APP_FACTORY \ {app_name} : r.value # APP_FACTORY[other]
           ELSE /\ r.raised = "ValueError"
                /\ r.listed = {"lammps", "vasp", "python"}

\* A name that differs from a registered one in letter case only has been
\* refused.
C30_Witness ==
    /\ LastOp("get_app_instance")
    /\ Val(call).app = "LAMMPS"
    /\ Val(ret).raised = "ValueError"
    /\ Len(store) > 0

\* C29: when the run command has ended, its exit code is 0 if the backend
\* configuration loaded and 1 if it did not, whatever happened to the jobs
\* and the groups of the pass.
C29_ExitCode ==
    (pc \in {"done", "exit1", "crashed"}) =>
        ExitCode = (IF scheduler # NULL THEN 0 ELSE 1)

\* ------------------------------------------------------------------ C31
\* The fields run reads from a fetched record (run.py 86-87, 101, 140-141,
\* 161-172).
ReadKeys == ExecKeys \cup {"app", "tag"}

\* C31: in_file and mpi_opts are stored with every job, and every field the
\* orchestrator reads from a fetched record (job_id, path, app, tag, ngpus,
\* in_file, mpi_opts) is a field of the records the Store returned.
C31_FieldsStoredAndPassed ==
    /\ \A j \in DOMAIN store : {"in_file", "mpi_opts"} \subseteq DOMAIN store[j]
    /\ \A i \in 1..Len(filtered) : ReadKeys \subseteq DOMAIN filtered[i]

\* ------------------------------------------------------------------ C32
\* The values check_success returned for job j, in call order.
Returned(j) ==
    LET cs == SelectSeq(hist[j], LAMBDA e : e[1] = "cs" /\ e[2] # "raise")
    IN [i \in 1..Len(cs) |-> cs[i][2]]

\* C32: check_success of a lammps job returns Done if log.lammps is a
\* readable file holding the marker and Failed otherwise, and when it has
\* returned the status of the job in the store is the returned value.
C32_LammpsCheckSuccess ==
    /\ \A j \in DOMAIN store :
          store[j].app = "lammps" =>
             \A i \in 1..Len(Returned(j)) :
                /\ Returned(j)[i] \in {"Done", "Failed"}
                /\ (Returned(j)[i] = "Done") <=> marker[j]
    /\ (pc = "write" /\ AwaitJob.app = "lammps") =>
          /\ Len(Returned(AwaitJob.job_id)) > 0
          /\ job_status = Returned(AwaitJob.job_id)[Len(Returned(AwaitJob.job_id))]
          /\ store[AwaitJob.job_id].status = job_status

\* The handle of a lammps job completed cleanly, log.lammps lacks the
\* marker, and check_success has returned Failed and left Failed in the
\* store.
C32_Witness ==
    /\ pc = "write"
    /\ AwaitJob.app = "lammps"
    /\ unit[AwaitJob.job_id] = "ok"
    /\ ~marker[AwaitJob.job_id]
    /\ job_status = "Failed"
    /\ store[AwaitJob.job_id].status = "Failed"

\* ------------------------------------------------------------------ C33
\* C33: get_config of the sophia configuration raises no arithmetic error,
\* whatever node count (>= 0) the node list holds and whatever number of
\* accelerators (>= 0) nvidia-smi lists.
C33_NoDivisionByZero ==
    ~(config_name = "sophia" /\ exc = "ZeroDivisionError")

\* ------------------------------------------------------------------ C34
\* C34: on every path through the await step, check_success is called at
\* most once and postprocess at most once for each retained handle, and
\* check_success has been called once for every handle the loop has left.
C34_HooksOncePerHandle ==
    \A i \in 1..Len(futures) :
        LET j == futures[i].job_id
        IN /\ Count(j, "cs") <= 1
           /\ Count(j, "post") <= 1
           /\ (i < idx => Count(j, "cs") = 1)

\* ------------------------------------------------------------------ C37
\* The applications whose check_success assumes success.
AssumedSuccessApps == {"python", "vasp"}

C38_UndeterminedKeepsStatus ==
    \A i \in 1..Len(futures) :
        LET j == futures[i].job_id
        IN (/\ Len(Returned(j)) > 0
            /\ \A k \in 1..Len(Returned(j)) : Returned(j)[k] \in Undetermined)
           => /\ Count(j, "write") = 0
              /\ Count(j, "post") = 0
              /\ store[j].status \in {"Submitted", "Running"}
              /\ store[j].status = (IF Count(j, "unit") > 0 THEN "Running" ELSE "Submitted")
              /\ (pc = "write" /\ i = idx) => job_status \in Undetermined

\* The pass has ended with two jobs left Running: one whose handle
\* completed cleanly and whose check_success returned null, one whose
\* handle raised and whose check_success returned the empty status.
C38_Witness ==
    \E i, k \in 1..Len(futures) :
        /\ pc = "done"
        /\ Has(futures[i].job_id, <<"result", "ok">>)
        /\ Has(futures[i].job_id, <<"cs", NULL>>)
        /\ Has(futures[k].job_id, <<"result", "raise">>)
        /\ Has(futures[k].job_id, <<"cs", "">>)
        /\ store[futures[i].job_id].status = "Running"
        /\ store[futures[k].job_id].status = "Running"

\* ------------------------------------------------------------------ C35
\* Job j was in the store when the pass started and every status it has had
\* since, by the writes of the other processes, is Ready or Restart.
RunnableThroughout(j) ==
    /\ j \in DOMAIN Val(pre)
    /\ Val(pre)[j].status \in RunnableStatuses
    /\ \A i \in 1..Len(hist[j]) :
          hist[j][i][1] \in EnvEvents => hist[j][i][2] \in RunnableStatuses

\* C35: whatever the other processes write while the pass fetches, no job
\* id occurs twice in the filtered set, no job is marked Submitted twice,
\* and a job that passes the filters and was Ready or Restart throughout
\* the fetch occurs in the filtered set.
C35_FetchRaceFree ==
    Fetched =>
        \A j \in DOMAIN store :
            /\ Occurrences(filtered, j) <= 1
            /\ Cardinality({i \in 1..Len(hist[j]) : hist[j][i] = <<"write", "Submitted">>}) <= 1
            /\ (RunnableThroughout(j) /\ PassesFilters(store[j], app_filter, tag_filter))
                  => Occurrences(filtered, j) >= 1

\* ------------------------------------------------------------------ C36
\* The number of times job j was marked Submitted.
SubmittedWrites(j) ==
    Cardinality({i \in 1..Len(hist[j]) : hist[j][i] = <<"write", "Submitted">>})

C39_OrderOfIdList ==
    LastOp("get_jobs_by_ids") =>
        LET job_ids == Val(call).job_ids
            found == SelectSeq(job_ids, LAMBDA j : j \in DOMAIN store)
        IN /\ Val(ret).raised = NULL
           /\ Val(ret).value = [i \in 1..Len(found) |-> Snapshot(store, found[i])]
           /\ job_ids = << >> => Val(ret).value = << >>

====
